---- MODULE Spec2Model ----
(***************************************************************************)
(* Model of the URL-to-content pipeline of the mini browser:               *)
(*   src/browser.py       decode_chunked, the response cache and fetch     *)
(*   src/dns_resolver.py  resolve (answer-section parser)                  *)
(*   src/renderer.py      Browser.navigate / _on_reload / _on_back         *)
(* Byte strings are sequences of byte values 0..255 (ASCII codes), text    *)
(* strings (URLs, hosts) are sequences of one-character strings.           *)
(***************************************************************************)
EXTENDS Integers, Sequences, FiniteSets, TLC

VARIABLES
    \* decode_chunked
    chunk_in,        \* how the input was built (observation only)
    chunk_data,      \* local `data`: the part of the body not yet consumed
    chunk_result,    \* local `result`
    chunk_pc,        \* "idle" | "loop" | "done"
    \* resolve: parsing of the response datagram
    dns_in,          \* how the datagram was built (observation only)
    dns_response,    \* local `response`
    dns_counts,      \* qdcount, ancount from the header
    dns_q,           \* question-loop iterations still to run
    dns_a,           \* answer-loop iterations still to run
    dns_offset,      \* local `offset`
    dns_ips,         \* local `ips`
    dns_log,         \* one entry per answer-loop iteration (observation only)
    dns_ret,         \* return value of resolve
    dns_pc,          \* "idle" | "header" | "parse" | "done" | "raise"
    \* browser.py module state and renderer.Browser fields
    cache,           \* _cache: url -> body
    current_url,     \* Browser.current_url
    display,         \* what the frame shows: a rendered body or an error label
    \* the running fetch call (one frame: fetch recurses only in tail position)
    pc,              \* "idle" | "guard" | "cache" | "parse" | "dns" | "connect" | "tls" |
                     \* "tls_connect" | "tls_wrap" | "send" | "recv" | "decode"
    url,             \* argument `url` of the current frame
    redirect_count,  \* argument `_redirect_count` of the current frame
    target,          \* scheme, host, host_header, path, port of the current frame
    ip,              \* local `ip`
    wait,            \* time the current sock.recv has been blocked
    recvd,           \* data segments appended to `response` so far (saturating)
    response,        \* the response read from the socket, after header parsing
    \* observation only
    calls,           \* outermost fetch calls started
    call,            \* kind and argument of the outermost call, _cache as it found it
    last,            \* outcome of the outermost call, once it has returned
    prev,            \* outcome of the outermost call before this one
    net,             \* what the outermost call did so far
    hop,             \* network I/O of the current frame
    tls_log          \* TLS events of the connection being set up

chunk_vars == <<chunk_in, chunk_data, chunk_result, chunk_pc>>

dns_vars == <<dns_in, dns_response, dns_counts, dns_q, dns_a, dns_offset, dns_ips,
              dns_log, dns_ret, dns_pc>>

browser_vars == <<cache, current_url, display>>

fetch_vars == <<pc, url, redirect_count, target, ip, wait, recvd, response>>

obs_vars == <<calls, call, last, prev, net, hop, tls_log>>

vars == <<chunk_vars, dns_vars, browser_vars, fetch_vars, obs_vars>>

----------------------------------------------------------------------------
(* Generic helpers: Python slicing and searching on sequences.             *)

Min(a, b) == IF a < b THEN a ELSE b

Max(a, b) == IF a > b THEN a ELSE b

\* Python's s[lo:hi] with 0-based, possibly negative or oversized indices.
PyIndex(n, i) == IF i < 0 THEN Max(n + i, 0) ELSE Min(i, n)

PySlice(s, lo, hi) ==
    LET a == PyIndex(Len(s), lo)
        b == PyIndex(Len(s), hi)
    IN  IF a >= b THEN << >> ELSE SubSeq(s, a + 1, b)

\* Python's s[lo:]
PyFrom(s, lo) == PySlice(s, lo, Len(s))

\* Python's s.find(pat): 0-based index of the first occurrence, or -1.
PyFind(s, pat) ==
    LET hits == { i \in 0..(Len(s) - Len(pat)) :
                     SubSeq(s, i + 1, i + Len(pat)) = pat }
    IN  IF hits = {} THEN -1
        ELSE CHOOSE i \in hits : \A j \in hits : i <= j

RECURSIVE Concat(_)
Concat(ss) == IF ss = << >> THEN << >> ELSE Head(ss) \o Concat(Tail(ss))

----------------------------------------------------------------------------
(* Bytes.                                                                  *)

CR == 13
LF == 10
CRLF == <<13, 10>>
Zero == 48          \* "0"
Minus == 45         \* "-"
Plus == 43          \* "+"
Underscore == 95    \* "_"

\* bytes.isspace(): space, \t, \n, \v, \f, \r
IsSpace(b) == b \in {32, 9, 10, 11, 12, 13}

IsHexDigit(b) == (b >= 48 /\ b <= 57) \/ (b >= 97 /\ b <= 102) \/ (b >= 65 /\ b <= 70)

HexVal(b) == IF b <= 57 THEN b - 48 ELSE IF b >= 97 THEN b - 87 ELSE b - 55

RECURSIVE LStrip(_)
LStrip(s) == IF s # << >> /\ IsSpace(Head(s)) THEN LStrip(Tail(s)) ELSE s

RECURSIVE RStrip(_)
RStrip(s) == IF s # << >> /\ IsSpace(s[Len(s)]) THEN RStrip(SubSeq(s, 1, Len(s) - 1)) ELSE s

\* Digits of a base-16 literal after sign and prefix: hex digits, single
\* underscores allowed between digits (and right after the 0x prefix).
RECURSIVE HexDigitsOk(_, _)
HexDigitsOk(s, prevDigit) ==
    IF s = << >> THEN prevDigit
    ELSE IF IsHexDigit(Head(s)) THEN HexDigitsOk(Tail(s), TRUE)
    ELSE IF Head(s) = Underscore THEN prevDigit /\ Tail(s) # << >> /\ IsHexDigit(Head(Tail(s)))
                                      /\ HexDigitsOk(Tail(s), FALSE)
    ELSE FALSE

RECURSIVE HexDigitsVal(_, _)
HexDigitsVal(s, acc) ==
    IF s = << >> THEN acc
    ELSE IF Head(s) = Underscore THEN HexDigitsVal(Tail(s), acc)
    ELSE HexDigitsVal(Tail(s), acc * 16 + HexVal(Head(s)))

\* Python's int(s, 16) on a bytes object: [ok |-> FALSE] stands for ValueError.
IntBase16(s) ==
    LET t    == RStrip(LStrip(s))
        neg  == t # << >> /\ Head(t) = Minus
        u    == IF t # << >> /\ Head(t) \in {Minus, Plus} THEN Tail(t) ELSE t
        pre  == Len(u) >= 2 /\ u[1] = Zero /\ u[2] \in {120, 88}
        d    == IF pre THEN SubSeq(u, 3, Len(u)) ELSE u
        ok   == IF pre /\ d # << >> /\ Head(d) = Underscore
                THEN HexDigitsOk(Tail(d), FALSE)
                ELSE HexDigitsOk(d, FALSE)
    IN  IF ok THEN [ok |-> TRUE, val |-> (IF neg THEN -1 ELSE 1) * HexDigitsVal(d, 0)]
        ELSE [ok |-> FALSE, val |-> 0]

----------------------------------------------------------------------------
(* decode_chunked (src/browser.py).                                        *)

\* One evaluation of the loop condition and body of decode_chunked.
\* done = TRUE: the loop is left (falsy data, or one of the three breaks).
ChunkBodyNoTrailer(data, result) ==
    IF data = << >> THEN [data |-> data, result |-> result, done |-> TRUE]
    ELSE LET crlf == PyFind(data, CRLF) IN
         IF crlf = -1 THEN [data |-> data, result |-> result, done |-> TRUE]
         ELSE LET sz == IntBase16(PySlice(data, 0, crlf)) IN
              IF ~sz.ok THEN [data |-> data, result |-> result, done |-> TRUE]
              ELSE IF sz.val = 0 THEN [data |-> data, result |-> result, done |-> TRUE]
              ELSE LET start == crlf + 2 IN
                   [data   |-> PyFrom(data, start + sz.val),
                    result |-> result \o PySlice(data, start, start + sz.val),
                    done   |-> FALSE]

ChunkBody(data, result) ==
    IF data = << >> THEN [data |-> data, result |-> result, done |-> TRUE]
    ELSE LET crlf == PyFind(data, CRLF) IN
         IF crlf = -1 THEN [data |-> data, result |-> result, done |-> TRUE]
         ELSE LET sz == IntBase16(PySlice(data, 0, crlf)) IN
              IF ~sz.ok THEN [data |-> data, result |-> result, done |-> TRUE]
              ELSE IF sz.val = 0 THEN [data |-> data, result |-> result, done |-> TRUE]
              ELSE LET start == crlf + 2 IN
                   [data   |-> PyFrom(data, start + sz.val + 2),
                    result |-> result \o PySlice(data, start, start + sz.val),
                    done   |-> FALSE]

\* decode_chunked is not running.
ChunkIdle ==
    /\ chunk_in = [kind |-> "none", chunks |-> << >>, tail |-> << >>]
    /\ chunk_data = << >>
    /\ chunk_result = << >>
    /\ chunk_pc = "idle"

\* Size line as the sender writes it: lower-case hexadecimal, no padding.
HexChar(d) == IF d < 10 THEN 48 + d ELSE 87 + d

RECURSIVE Hex(_)
Hex(n) == IF n < 16 THEN <<HexChar(n)>> ELSE Hex(n \div 16) \o <<HexChar(n % 16)>>

EncodeChunk(p) == Hex(Len(p)) \o CRLF \o p \o CRLF

RECURSIVE EncodeChunks(_)
EncodeChunks(ps) == IF ps = << >> THEN << >> ELSE EncodeChunk(Head(ps)) \o EncodeChunks(Tail(ps))

LastChunk == <<48, 13, 10, 13, 10>>

MaxChunks == 2

MaxRawLen == 4

RawBytes == {45, 54, 13, 10}

\* Sample payloads: a letter, a bare CRLF, a payload that looks like the last
\* chunk, and payloads of 10 and 17 bytes (size lines "a" and "11").
Payloads ==
    { <<97>>, <<13, 10>>, <<48, 13, 10>>,
      <<97, 98, 99, 100, 101, 102, 103, 104, 105, 106>>,
      <<49, 50, 51, 52, 53, 54, 55, 56, 57, 48, 13, 10, 97, 98, 99, 100, 101>> }

ChunkLists == UNION { [1..n -> Payloads] : n \in 0..MaxChunks }

\* Tails in which the next size line has no CRLF at all.
NoCrlfTails == { << >>, <<51>>, <<51, 97, 98>>, <<13>>, <<10, 51>> }

\* Tails whose next size line is terminated but int(.., 16) rejects it.
BadSizeTails ==
    { <<13, 10, 97, 13, 10>>,                       \* empty size line
      <<122, 122, 13, 10, 97, 98, 13, 10>>,         \* "zz"
      <<51, 59, 120, 13, 10, 97, 98, 99, 13, 10>>,  \* "3;x" (chunk extension)
      <<49, 32, 49, 13, 10, 97, 13, 10>> }          \* "1 1"

RawInputs == UNION { [1..n -> RawBytes] : n \in 1..MaxRawLen }

ChunkInputs ==
    { [kind |-> "wellformed", chunks |-> ps, tail |-> LastChunk] : ps \in ChunkLists }
    \cup { [kind |-> "nocrlf", chunks |-> ps, tail |-> t] : ps \in ChunkLists, t \in NoCrlfTails }
    \cup { [kind |-> "badsize", chunks |-> ps, tail |-> t] : ps \in ChunkLists, t \in BadSizeTails }
    \cup { [kind |-> "raw", chunks |-> << >>, tail |-> t] : t \in RawInputs }

\* decode_chunked(data) is entered: result = b"".
ChunkStart ==
    /\ chunk_in \in ChunkInputs
    /\ chunk_data = EncodeChunks(chunk_in.chunks) \o chunk_in.tail
    /\ chunk_result = << >>
    /\ chunk_pc = "loop"

\* One iteration of `while data:` that reaches the end of the loop body.
ChunkIter ==
    /\ chunk_pc = "loop"
    /\ LET r == ChunkBody(chunk_data, chunk_result) IN
       /\ ~r.done
       /\ chunk_data' = r.data
       /\ chunk_result' = r.result
    /\ UNCHANGED <<chunk_in, chunk_pc>>
    /\ UNCHANGED <<dns_vars, browser_vars, fetch_vars, obs_vars>>

\* The loop is left (data is empty or a break) and result is returned.
ChunkReturn ==
    /\ chunk_pc = "loop"
    /\ ChunkBody(chunk_data, chunk_result).done
    /\ chunk_pc' = "done"
    /\ UNCHANGED <<chunk_in, chunk_data, chunk_result>>
    /\ UNCHANGED <<dns_vars, browser_vars, fetch_vars, obs_vars>>

----------------------------------------------------------------------------
(* resolve (src/dns_resolver.py): parsing of the response datagram.        *)
(* Offsets are 0-based as in the source; response[k] is resp[k + 1].       *)

\* Return values of resolve: an address, None, or no return at all
\* (status "raise": an exception that resolve does not catch).
None == [status |-> "none", ip |-> << >>]

Address(a) == [status |-> "ok", ip |-> a]

Raised == [status |-> "raise", ip |-> << >>]

\* struct.unpack big-endian fields at a 0-based offset.
U16(resp, off) == resp[off + 1] * 256 + resp[off + 2]

U32(resp, off) == U16(resp, off) * 65536 + U16(resp, off + 2)

\* while offset < len(response) and response[offset] != 0:
\*     offset += response[offset] + 1
RECURSIVE SkipLabels(_, _)
SkipLabels(resp, offset) ==
    IF offset < Len(resp) /\ resp[offset + 1] # 0
    THEN SkipLabels(resp, offset + resp[offset + 1] + 1)
    ELSE offset

\* One iteration of the question loop.
SkipQuestion(resp, offset) == SkipLabels(resp, offset) + 5

\* The name of an answer record: a 2-byte pointer or a walk over labels.
SkipName(resp, offset) ==
    IF resp[offset + 1] >= 192          \* response[offset] & 0xC0 == 0xC0
    THEN offset + 2
    ELSE SkipLabels(resp, offset) + 1

\* One iteration of the answer loop.  brk: the iteration left the loop;
\* named: the name was skipped; read: the 10-byte fields block was unpacked.
NoFields == [rtype |-> -1, rclass |-> -1, ttl |-> -1, rdlength |-> -1, rdata |-> << >>]

AnswerStep(resp, offset) ==
    IF offset + 2 > Len(resp)
    THEN [brk |-> TRUE, named |-> FALSE, read |-> FALSE, after_name |-> offset,
          fields |-> NoFields, ip |-> << >>, offset |-> offset]
    ELSE LET o1 == SkipName(resp, offset) IN
         IF o1 + 10 > Len(resp)
         THEN [brk |-> TRUE, named |-> TRUE, read |-> FALSE, after_name |-> o1,
               fields |-> NoFields, ip |-> << >>, offset |-> o1]
         ELSE LET rtype    == U16(resp, o1)
                  rclass   == U16(resp, o1 + 2)
                  ttl      == U32(resp, o1 + 4)
                  rdlength == U16(resp, o1 + 8)
                  o2       == o1 + 10
              IN  [brk |-> FALSE, named |-> TRUE, read |-> TRUE, after_name |-> o1,
                   fields |-> [rtype |-> rtype, rclass |-> rclass, ttl |-> ttl,
                               rdlength |-> rdlength,
                               rdata |-> PySlice(resp, o2, o2 + rdlength)],
                   \* ".".join(str(b) for b in response[offset:offset + 4]),
                   \* kept as the list of octets it joins; << >> = not recorded
                   ip |-> IF rtype = 1 /\ rdlength = 4
                          THEN <<PySlice(resp, o2, o2 + 4)>> ELSE << >>,
                   offset |-> o2 + rdlength]

\* resolve is not running.
DnsIdle ==
    /\ dns_in = [kind |-> "none", answers |-> << >>, cut |-> 0]
    /\ dns_response = << >>
    /\ dns_counts = [qdcount |-> 0, ancount |-> 0]
    /\ dns_q = 0
    /\ dns_a = 0
    /\ dns_offset = 0
    /\ dns_ips = << >>
    /\ dns_log = << >>
    /\ dns_ret = None
    /\ dns_pc = "idle"

\* Synthetic well-formed responses: header, one question, answer records.
B16(n) == <<n \div 256, n % 256>>

B32(n) == B16(n \div 65536) \o B16(n % 65536)

DnsHeaderBytes(qd, an) == <<18, 52, 129, 128>> \o B16(qd) \o B16(an) \o <<0, 0, 0, 0>>

\* question "a.b", QTYPE=A, QCLASS=IN
QuestionBytes == <<1, 97, 1, 98, 0, 0, 1, 0, 1>>

RecordBytes(r) ==
    r.name \o B16(r.rtype) \o B16(r.rclass) \o B32(r.ttl) \o B16(Len(r.rdata)) \o r.rdata

RECURSIVE RecordsBytes(_)
RecordsBytes(rs) == IF rs = << >> THEN << >> ELSE RecordBytes(Head(rs)) \o RecordsBytes(Tail(rs))

PointerName == <<192, 12>>

\* Names that are a pointer, labels ending in the zero byte, the root name,
\* and labels ending in a pointer.
RecordNames == { PointerName, <<1, 97, 1, 98, 0>>, <<0>>, <<3, 119, 119, 119, 192, 12>> }

RecordData ==
    { [rtype |-> 1, ttl |-> 60, rdata |-> <<10, 0, 0, 1>>],
      [rtype |-> 1, ttl |-> 300, rdata |-> <<93, 184, 216, 34>>],
      [rtype |-> 5, ttl |-> 60, rdata |-> <<192, 12>>],
      [rtype |-> 5, ttl |-> 300, rdata |-> <<1, 99, 192, 12>>] }

Records ==
    { [name |-> n, rtype |-> d.rtype, rclass |-> 1, ttl |-> d.ttl, rdata |-> d.rdata] :
        n \in RecordNames, d \in RecordData }

MaxAnswers == 2

AnswerLists == UNION { [1..n -> Records] : n \in 0..MaxAnswers }

WellFormedResponse(rs) == DnsHeaderBytes(1, Len(rs)) \o QuestionBytes \o RecordsBytes(rs)

\* recvfrom(512) may also hand over a datagram that lost its last bytes.
MaxCut == 2

DnsInputs ==
    { [kind |-> "wellformed", answers |-> rs, cut |-> 0] : rs \in AnswerLists }
    \cup { [kind |-> "truncated", answers |-> rs, cut |-> k] : rs \in AnswerLists, k \in 1..MaxCut }

Datagram(in) ==
    LET whole == WellFormedResponse(in.answers) IN SubSeq(whole, 1, Len(whole) - in.cut)

\* recvfrom has returned the datagram.
DnsStart ==
    /\ dns_in \in DnsInputs
    /\ dns_response = Datagram(dns_in)
    /\ dns_counts = [qdcount |-> 0, ancount |-> 0]
    /\ dns_q = 0
    /\ dns_a = 0
    /\ dns_offset = 0
    /\ dns_ips = << >>
    /\ dns_log = << >>
    /\ dns_ret = None
    /\ dns_pc = "header"

\* struct.unpack(">HHHHHH", response[:12]); offset = 12
DnsHeader ==
    /\ dns_pc = "header"
    /\ IF Len(dns_response) < 12
       THEN /\ dns_pc' = "raise"        \* struct.error, not caught
            /\ UNCHANGED <<dns_counts, dns_q, dns_a, dns_offset>>
       ELSE /\ dns_counts' = [qdcount |-> U16(dns_response, 4), ancount |-> U16(dns_response, 6)]
            /\ dns_q' = U16(dns_response, 4)
            /\ dns_a' = U16(dns_response, 6)
            /\ dns_offset' = 12
            /\ dns_pc' = "parse"
    /\ UNCHANGED <<dns_in, dns_response, dns_ips, dns_log, dns_ret>>
    /\ UNCHANGED <<chunk_vars, browser_vars, fetch_vars, obs_vars>>

\* One iteration of `for _ in range(qdcount)`.
DnsQuestion ==
    /\ dns_pc = "parse"
    /\ dns_q > 0
    /\ dns_offset' = SkipQuestion(dns_response, dns_offset)
    /\ dns_q' = dns_q - 1
    /\ UNCHANGED <<dns_in, dns_response, dns_counts, dns_a, dns_ips, dns_log, dns_ret, dns_pc>>
    /\ UNCHANGED <<chunk_vars, browser_vars, fetch_vars, obs_vars>>

\* One iteration of `for _ in range(ancount)`.
DnsAnswer ==
    /\ dns_pc = "parse"
    /\ dns_q = 0
    /\ dns_a > 0
    /\ LET r == AnswerStep(dns_response, dns_offset) IN
       /\ dns_offset' = r.offset
       /\ dns_a' = IF r.brk THEN 0 ELSE dns_a - 1
       /\ dns_ips' = dns_ips \o r.ip
       /\ dns_log' = Append(dns_log, [start |-> dns_offset, named |-> r.named, read |-> r.read,
                                      after_name |-> r.after_name, fields |-> r.fields])
    /\ UNCHANGED <<dns_in, dns_response, dns_counts, dns_q, dns_ret, dns_pc>>
    /\ UNCHANGED <<chunk_vars, browser_vars, fetch_vars, obs_vars>>

\* return ips[0] if ips else None
DnsReturn ==
    /\ dns_pc = "parse"
    /\ dns_q = 0
    /\ dns_a = 0
    /\ dns_ret' = IF dns_ips # << >> THEN Address(dns_ips[1]) ELSE None
    /\ dns_pc' = "done"
    /\ UNCHANGED <<dns_in, dns_response, dns_counts, dns_q, dns_a, dns_offset, dns_ips, dns_log>>
    /\ UNCHANGED <<chunk_vars, browser_vars, fetch_vars, obs_vars>>

\* The whole of resolve after recvfrom, as a function of the datagram:
\* the first address, None, or Raised for the uncaught struct.error.
RECURSIVE SkipQuestions(_, _, _)
SkipQuestions(resp, offset, n) ==
    IF n = 0 THEN offset ELSE SkipQuestions(resp, SkipQuestion(resp, offset), n - 1)

RECURSIVE ParseAnswers(_, _, _, _)
ParseAnswers(resp, offset, n, ips) ==
    IF n = 0 THEN ips
    ELSE LET r == AnswerStep(resp, offset) IN
         IF r.brk THEN ips ELSE ParseAnswers(resp, r.offset, n - 1, ips \o r.ip)

ParseResponse(resp) ==
    IF Len(resp) < 12 THEN Raised
    ELSE LET ips == ParseAnswers(resp, SkipQuestions(resp, 12, U16(resp, 4)), U16(resp, 6), << >>)
         IN  IF ips # << >> THEN Address(ips[1]) ELSE None

----------------------------------------------------------------------------
(* Text strings: sequences of one-character strings.                       *)

StartsWith(s, pre) == Len(s) >= Len(pre) /\ SubSeq(s, 1, Len(pre)) = pre

Contains(s, pat) == PyFind(s, pat) # -1

\* s.split(sep, 1) when sep occurs in s
SplitHead(s, sep) == SubSeq(s, 1, PyFind(s, sep))

SplitTail(s, sep) == SubSeq(s, PyFind(s, sep) + Len(sep) + 1, Len(s))

DigitChars == {"0", "1", "2", "3", "4", "5", "6", "7", "8", "9"}

DigitVal(c) == CHOOSE d \in 0..9 : <<"0", "1", "2", "3", "4", "5", "6", "7", "8", "9">>[d + 1] = c

SpaceChars == {" ", "\t", "\n", "\r"}

RECURSIVE LStripText(_)
LStripText(s) == IF s # << >> /\ Head(s) \in SpaceChars THEN LStripText(Tail(s)) ELSE s

RECURSIVE RStripText(_)
RStripText(s) ==
    IF s # << >> /\ s[Len(s)] \in SpaceChars THEN RStripText(SubSeq(s, 1, Len(s) - 1)) ELSE s

RECURSIVE DecDigitsOk(_, _)
DecDigitsOk(s, prevDigit) ==
    IF s = << >> THEN prevDigit
    ELSE IF Head(s) \in DigitChars THEN DecDigitsOk(Tail(s), TRUE)
    ELSE IF Head(s) = "_" THEN prevDigit /\ Tail(s) # << >> /\ Head(Tail(s)) \in DigitChars
                               /\ DecDigitsOk(Tail(s), FALSE)
    ELSE FALSE

RECURSIVE DecDigitsVal(_, _)
DecDigitsVal(s, acc) ==
    IF s = << >> THEN acc
    ELSE IF Head(s) = "_" THEN DecDigitsVal(Tail(s), acc)
    ELSE DecDigitsVal(Tail(s), acc * 10 + DigitVal(Head(s)))

\* Python's int(s) on a str: [ok |-> FALSE] stands for ValueError.
IntBase10(s) ==
    LET t   == RStripText(LStripText(s))
        neg == t # << >> /\ Head(t) = "-"
        d   == IF t # << >> /\ Head(t) \in {"-", "+"} THEN Tail(t) ELSE t
    IN  IF DecDigitsOk(d, FALSE)
        THEN [ok |-> TRUE, val |-> (IF neg THEN -1 ELSE 1) * DecDigitsVal(d, 0)]
        ELSE [ok |-> FALSE, val |-> 0]

Http == <<"h", "t", "t", "p">>

Https == <<"h", "t", "t", "p", "s">>

SchemeSep == <<":", "/", "/">>

Localhost == <<"l", "o", "c", "a", "l", "h", "o", "s", "t">>

Loopback == <<127, 0, 0, 1>>

----------------------------------------------------------------------------
(* fetch (src/browser.py): URL parsing.                                    *)

MAX_REDIRECTS == 10

\* sock.settimeout(10)
RecvTimeout == 10

\* Granularity of the clock of the model.
TimeStep == 5

TooManyRedirectsLate(count) == count > MAX_REDIRECTS + 1

\* if _redirect_count > MAX_REDIRECTS: raise
TooManyRedirects(count) == count > MAX_REDIRECTS

\* Lines 52-80: err is "none", "InvalidURL" or "UnsupportedScheme".
NoTarget == [err |-> "none", scheme |-> << >>, host |-> << >>, host_header |-> << >>,
             path |-> << >>, port |-> 0]

ParseUrl(u) ==
    IF ~Contains(u, SchemeSep) THEN [NoTarget EXCEPT !.err = "InvalidURL"]
    ELSE LET scheme == SplitHead(u, SchemeSep)
             rest   == SplitTail(u, SchemeSep)
             host0  == IF Contains(rest, <<"/">>) THEN SplitHead(rest, <<"/">>) ELSE rest
             path   == IF Contains(rest, <<"/">>) THEN <<"/">> \o SplitTail(rest, <<"/">>)
                       ELSE <<"/">>
         IN  IF scheme # Http /\ scheme # Https
             THEN [NoTarget EXCEPT !.err = "UnsupportedScheme", !.scheme = scheme]
             ELSE LET default_port == IF scheme = Http THEN 80 ELSE 443
                      hasColon     == Contains(host0, <<":">>)
                      host_only    == IF hasColon THEN SplitHead(host0, <<":">>) ELSE host0
                      port_str     == IF hasColon THEN SplitTail(host0, <<":">>) ELSE << >>
                      p            == IntBase10(port_str)
                  IN  [err |-> "none", scheme |-> scheme,
                       host |-> IF hasColon /\ p.ok THEN host_only ELSE host0,
                       host_header |-> host0,
                       path |-> path,
                       port |-> IF hasColon /\ p.ok THEN p.val ELSE default_port]

----------------------------------------------------------------------------
(* The environment of fetch: what the resolver and the server may answer.  *)

ServerIp == <<10, 0, 0, 1>>

ARecord == [name |-> PointerName, rtype |-> 1, rclass |-> 1, ttl |-> 60, rdata |-> ServerIp]

\* Outcomes of the UDP exchange in resolve.
DnsOutcomes ==
    { [kind |-> "timeout", data |-> << >>],
      [kind |-> "error", data |-> << >>],
      [kind |-> "response", data |-> WellFormedResponse(<<ARecord>>)],
      [kind |-> "response", data |-> WellFormedResponse(<< >>)],
      [kind |-> "response", data |-> <<18, 52>>] }

\* resolve(domain) for one outcome of the exchange.
Resolve(o) == IF o.kind = "response" THEN ParseResponse(o.data) ELSE None

\* A response as fetch sees it after splitting at the first blank line:
\* sep       b"\r\n\r\n" occurs in the bytes read
\* redirect  the status line contains " 301 ", " 302 ", " 303 ", " 307 " or " 308 "
\* location  stripped value of the first "location:" line, << >> if none or empty
\* chunked, gzip, image   the three substring tests on the lower-cased headers
NoSepResponse ==
    [sep |-> FALSE, redirect |-> FALSE, location |-> << >>, chunked |-> FALSE,
     gzip |-> FALSE, image |-> FALSE, body |-> << >>]

Plain(body) == [NoSepResponse EXCEPT !.sep = TRUE, !.body = body]

GzipMagic == <<31, 139>>

RelLocation == <<"/", "n">>

AbsLocation == Http \o SchemeSep \o <<"a", "/", "n">>

Responses ==
    { NoSepResponse,
      Plain(<<97>>),
      Plain(<<98, 255>>),
      [Plain(<<255, 97>>) EXCEPT !.image = TRUE],
      [Plain(<<97>>) EXCEPT !.redirect = TRUE, !.location = RelLocation],
      [Plain(<<97>>) EXCEPT !.redirect = TRUE, !.location = AbsLocation],
      [Plain(<<97>>) EXCEPT !.redirect = TRUE],
      [Plain(EncodeChunks(<< <<98>> >>) \o LastChunk) EXCEPT !.chunked = TRUE],
      [Plain(<<45, 54, 13, 10>>) EXCEPT !.chunked = TRUE],
      [Plain(GzipMagic \o <<98>>) EXCEPT !.gzip = TRUE],
      [Plain(<<97>>) EXCEPT !.gzip = TRUE] }

\* gzip.decompress, reduced to its framing: a member that starts with the
\* magic number inflates to its payload, anything else raises.
Gunzip(b) ==
    IF StartsWith(b, GzipMagic) THEN [ok |-> TRUE, val |-> SubSeq(b, 3, Len(b))]
    ELSE [ok |-> FALSE, val |-> b]

\* body.decode(errors="ignore") on the model's bytes: ASCII passes, bytes that
\* cannot start a UTF-8 sequence are dropped.
DecodeText(b) == SelectSeq(b, LAMBDA x : x < 128)

Str(v) == [t |-> "str", v |-> v]

Bytes(v) == [t |-> "bytes", v |-> v]

\* Lines 163-168: the URL the redirect is followed to.
RedirectTarget(t, location) ==
    IF StartsWith(location, <<"/">>)
    THEN t.scheme \o SchemeSep \o t.host_header \o location
    ELSE location

\* Lines 170-184: content decoding and typing of the transfer-decoded body.
ContentDecode(r, body) ==
    IF r.gzip /\ Gunzip(body).ok THEN Gunzip(body).val ELSE body

TypedResult(r, body) ==
    IF r.image THEN Bytes(ContentDecode(r, body))
    ELSE Str(DecodeText(ContentDecode(r, body)))

\* Line 181-187: which results are stored.
StoresResult(r) == ~r.image

\* Lines 114-122: the fallback context.
FallbackStrategyUnverified(has_certifi) == "disabled"

FallbackStrategy(has_certifi) == IF has_certifi THEN "bundled" ELSE "disabled"

----------------------------------------------------------------------------
(* Bounds and inputs of the browser model.                                 *)

MaxCalls == 2

MaxSegs == 1

\* What the user types, or a link or form leads to.
TypedUrls ==
    { <<"a", "/">>,
      Http \o SchemeSep \o <<"a", "/">>,
      Https \o SchemeSep \o <<"a", "/">>,
      Http \o SchemeSep \o Localhost \o <<":", "x", "/">>,
      Http \o SchemeSep \o Localhost \o <<":", "8", "/">>,
      Http \o <<"a">>,
      Http \o <<"x">> \o SchemeSep \o <<"a", "/">> }

\* src attributes that start with "http".
ImageSrcs == { Http \o SchemeSep \o <<"a", "/", "n">> }

NoOutcome == [kind |-> "none", url |-> << >>, ok |-> FALSE, val |-> Str(<< >>), err |-> "none"]

NoPrev == [url |-> << >>, ok |-> FALSE, val |-> Str(<< >>)]

\* hits: cache hits; io_hops: frames that sent a DNS query or opened a
\* connection; rel_redirect: the first response was a redirect to a path.
NoNet == [hits |-> 0, io_hops |-> 0, rel_redirect |-> FALSE]

\* dns_host: the name given to resolve (<< >>: no query); tcp_to: the last
\* endpoint given to connect (port 0: no connection).
NoHop == [dns_host |-> << >>, tcp_to |-> [ip |-> << >>, port |-> 0]]

FetchIdle ==
    /\ pc = "idle"
    /\ url = << >>
    /\ redirect_count = 0
    /\ target = NoTarget
    /\ ip = << >>
    /\ wait = 0
    /\ recvd = 0
    /\ response = NoSepResponse
    /\ calls = 0
    /\ call = [kind |-> "none", url |-> << >>, before |-> << >>]
    /\ last = NoOutcome
    /\ prev = NoPrev
    /\ net = NoNet
    /\ hop = NoHop
    /\ tls_log = << >>

\* Module import and Browser.__init__.
BrowserInit ==
    /\ cache = << >>
    /\ current_url = << >>
    /\ display = [kind |-> "blank", content |-> << >>]
    /\ FetchIdle

----------------------------------------------------------------------------
(* fetch, one action per step between two I/O operations.                  *)

IsNavigation(kind) == kind \in {"navigate", "reload"}

\* The outermost call returns val to Browser.navigate / _render_image.
Return(val) ==
    /\ pc' = "idle"
    /\ last' = [kind |-> call.kind, url |-> call.url, ok |-> TRUE, val |-> val, err |-> "none"]
    /\ display' = IF IsNavigation(call.kind)
                  THEN [kind |-> "page", content |-> val.v]     \* render(html)
                  ELSE display

\* The outermost call raises; navigate shows the error label.
Raise(err) ==
    /\ pc' = "idle"
    /\ last' = [kind |-> call.kind, url |-> call.url, ok |-> FALSE, val |-> Str(<< >>), err |-> err]
    /\ display' = IF IsNavigation(call.kind)
                  THEN [kind |-> "error", content |-> << >>]
                  ELSE display

\* fetch(u) is called with _redirect_count = 0.
Start(kind, u) ==
    /\ pc = "idle"
    /\ calls < MaxCalls
    /\ calls' = calls + 1
    /\ call' = [kind |-> kind, url |-> u, before |-> cache']
    /\ last' = NoOutcome
    /\ prev' = IF last.kind = "none" THEN prev ELSE [url |-> last.url, ok |-> last.ok, val |-> last.val]
    /\ net' = NoNet
    /\ hop' = NoHop
    /\ tls_log' = << >>
    /\ pc' = "guard"
    /\ url' = u
    /\ redirect_count' = 0
    /\ target' = NoTarget
    /\ ip' = << >>
    /\ wait' = 0
    /\ recvd' = 0
    /\ response' = NoSepResponse
    /\ chunk_data' = << >>
    /\ chunk_result' = << >>
    /\ UNCHANGED <<display, chunk_in, chunk_pc, dns_vars>>

\* Browser.navigate up to the call of fetch_func (also _on_go, _on_link, launch).
NormalizeUrl(u) == IF StartsWith(u, Http) THEN u ELSE Http \o SchemeSep \o u

Navigate(u) ==
    /\ current_url' = NormalizeUrl(u)
    /\ UNCHANGED cache
    /\ Start("navigate", NormalizeUrl(u))

\* _cache.pop(self.current_url, None)
CachePop(c, u) == [k \in (DOMAIN c) \ {u} |-> c[k]]

\* Browser._on_reload
OnReload ==
    /\ current_url # << >>
    /\ cache' = CachePop(cache, current_url)
    /\ Start("reload", current_url)
    /\ UNCHANGED current_url

\* Browser._render_image up to the call of fetch_func.
RenderImage(src) ==
    /\ display.kind = "page"
    /\ UNCHANGED <<cache, current_url>>
    /\ Start("image", src)

\* Lines 42-45.
FetchGuard ==
    /\ pc = "guard"
    /\ IF TooManyRedirects(redirect_count)
       THEN Raise("TooManyRedirects")
       ELSE /\ pc' = "cache"
            /\ UNCHANGED <<last, display>>
    /\ UNCHANGED <<chunk_vars, dns_vars, cache, current_url, url, redirect_count, target, ip,
                   wait, recvd, response, calls, call, prev, net, hop, tls_log>>

\* Lines 47-50.
FetchCacheCheck ==
    /\ pc = "cache"
    /\ IF url \in DOMAIN cache
       THEN /\ Return(cache[url])
            /\ net' = [net EXCEPT !.hits = @ + 1]
       ELSE /\ pc' = "parse"
            /\ UNCHANGED <<last, display, net>>
    /\ UNCHANGED <<chunk_vars, dns_vars, cache, current_url, url, redirect_count, target, ip,
                   wait, recvd, response, calls, call, prev, hop, tls_log>>

\* Lines 52-80.
FetchParseUrl ==
    /\ pc = "parse"
    /\ LET t == ParseUrl(url) IN
       IF t.err # "none"
       THEN /\ Raise(t.err)
            /\ UNCHANGED target
       ELSE /\ target' = t
            /\ pc' = "dns"
            /\ UNCHANGED <<last, display>>
    /\ UNCHANGED <<chunk_vars, dns_vars, cache, current_url, url, redirect_count, ip,
                   wait, recvd, response, calls, call, prev, net, hop, tls_log>>

\* Lines 82-89.
FetchResolve ==
    /\ pc = "dns"
    /\ IF target.host = Localhost
       THEN /\ ip' = Loopback
            /\ pc' = "connect"
            /\ UNCHANGED <<net, hop, last, display>>
       ELSE \E o \in DnsOutcomes :
            /\ net' = [net EXCEPT !.io_hops = @ + 1]
            /\ hop' = [hop EXCEPT !.dns_host = target.host]
            /\ LET r == Resolve(o) IN
               IF r = None
               THEN Raise("DNSFailed") /\ UNCHANGED ip
               ELSE IF r = Raised
               THEN Raise("struct.error") /\ UNCHANGED ip
               ELSE /\ ip' = r.ip
                    /\ pc' = "connect"
                    /\ UNCHANGED <<last, display>>
    /\ UNCHANGED <<chunk_vars, dns_vars, cache, current_url, url, redirect_count, target,
                   wait, recvd, response, calls, call, prev, tls_log>>

\* Lines 91-99.
FetchConnect ==
    /\ pc = "connect"
    /\ net' = [net EXCEPT !.io_hops = IF hop.dns_host = << >> THEN @ + 1 ELSE @]
    /\ hop' = [hop EXCEPT !.tcp_to = [ip |-> ip, port |-> target.port]]
    /\ \E o \in {"ok", "refused", "timeout"} :
         IF o = "refused" THEN Raise("ConnectionRefused")
         ELSE IF o = "timeout" THEN Raise("ConnectionTimeout")
         ELSE /\ pc' = IF target.scheme = Https THEN "tls" ELSE "send"
              /\ UNCHANGED <<last, display>>
    /\ UNCHANGED <<chunk_vars, dns_vars, cache, current_url, url, redirect_count, target, ip,
                   wait, recvd, response, calls, call, prev, tls_log>>

\* Lines 102-106: handshake verified against the system trust store.
FetchTls ==
    /\ pc = "tls"
    /\ \E o \in {"ok", "certfail", "sslerror"} :
         /\ tls_log' = Append(tls_log, [ev |-> "handshake", verify |-> "system", out |-> o])
         /\ IF o = "sslerror" THEN Raise("SSLError")
            ELSE /\ pc' = IF o = "ok" THEN "send" ELSE "tls_connect"
                 /\ UNCHANGED <<last, display>>
    /\ UNCHANGED <<chunk_vars, dns_vars, cache, current_url, url, redirect_count, target, ip,
                   wait, recvd, response, calls, call, prev, net, hop>>

\* Lines 111-113: a fresh socket; its connect is outside any try.
FetchTlsConnect ==
    /\ pc = "tls_connect"
    /\ \E o \in {"ok", "refused"} :
         /\ tls_log' = Append(tls_log, [ev |-> "connect", verify |-> "-", out |-> o])
         /\ IF o = "refused" THEN Raise("ConnectionRefusedError")
            ELSE /\ pc' = "tls_wrap"
                 /\ UNCHANGED <<last, display>>
    /\ UNCHANGED <<chunk_vars, dns_vars, cache, current_url, url, redirect_count, target, ip,
                   wait, recvd, response, calls, call, prev, net, hop>>

\* Lines 114-123: `import certifi` succeeds or not, the context is chosen,
\* the warning is printed, the second handshake runs.
FetchTlsWrap ==
    /\ pc = "tls_wrap"
    /\ \E has_certifi \in BOOLEAN, o \in {"ok", "sslerror"} :
         LET strategy == FallbackStrategy(has_certifi)
             imported == Append(tls_log, [ev |-> "import certifi", verify |-> "-",
                                          out |-> IF has_certifi THEN "ok" ELSE "ImportError"])
             printed  == IF strategy = "disabled"
                         THEN Append(imported, [ev |-> "warning", verify |-> "-", out |-> "-"])
                         ELSE imported
         IN  /\ tls_log' = Append(printed, [ev |-> "handshake", verify |-> strategy, out |-> o])
             /\ IF o = "sslerror" THEN Raise("SSLError")
                ELSE /\ pc' = "send"
                     /\ UNCHANGED <<last, display>>
    /\ UNCHANGED <<chunk_vars, dns_vars, cache, current_url, url, redirect_count, target, ip,
                   wait, recvd, response, calls, call, prev, net, hop>>

\* Lines 125-138: sendall, response = b"".
FetchSend ==
    /\ pc = "send"
    /\ pc' = "recv"
    /\ wait' = 0
    /\ recvd' = 0
    /\ tls_log' = << >>
    /\ UNCHANGED <<chunk_vars, dns_vars, browser_vars, url, redirect_count, target, ip,
                   response, calls, call, last, prev, net, hop>>

\* sock.recv is blocked and time passes.
FetchRecvWait ==
    /\ pc = "recv"
    /\ wait < RecvTimeout
    /\ wait' = Min(wait + TimeStep, RecvTimeout)
    /\ UNCHANGED <<chunk_vars, dns_vars, browser_vars, pc, url, redirect_count, target, ip,
                   recvd, response, obs_vars>>

\* Lines 141-144: recv returns data before the timeout; response += data.
\* Only the number of segments is kept, and only up to MaxSegs.
FetchRecvData ==
    /\ pc = "recv"
    /\ wait < RecvTimeout
    /\ recvd' = Min(recvd + 1, MaxSegs)
    /\ wait' = 0
    /\ UNCHANGED <<chunk_vars, dns_vars, browser_vars, pc, url, redirect_count, target, ip,
                   response, obs_vars>>

CachePutOutermost(c, u, v) ==
    [k \in (DOMAIN c) \cup {call.url} |-> IF k = call.url THEN v ELSE c[k]]

\* _cache[url] = result
CachePut(c, u, v) == [k \in (DOMAIN c) \cup {u} |-> IF k = u THEN v ELSE c[k]]

FetchRecvEndStoringRedirect ==
    /\ pc = "recv"
    /\ \E r \in Responses :
         /\ recvd = 0 => r = NoSepResponse
         /\ IF ~r.sep
            THEN /\ Return(Str(<< >>))
                 /\ UNCHANGED <<url, redirect_count, response, chunk_data, chunk_result,
                                net, hop, tls_log, cache>>
            ELSE IF r.redirect /\ r.location # << >>
            THEN /\ url' = RedirectTarget(target, r.location)
                 /\ redirect_count' = redirect_count + 1
                 /\ pc' = "guard"
                 /\ net' = [net EXCEPT !.rel_redirect =
                               IF redirect_count = 0 THEN StartsWith(r.location, <<"/">>) ELSE @]
                 /\ hop' = NoHop
                 /\ tls_log' = << >>
                 /\ UNCHANGED <<last, display, response, chunk_data, chunk_result>>
                 /\ cache' = CachePut(cache, url, Str(r.body))
            ELSE /\ pc' = "decode"
                 /\ response' = r
                 /\ chunk_data' = IF r.chunked THEN r.body ELSE << >>
                 /\ chunk_result' = << >>
                 /\ UNCHANGED <<last, display, url, redirect_count, net, hop, tls_log, cache>>
    /\ wait' = 0
    /\ recvd' = 0
    /\ UNCHANGED <<chunk_in, chunk_pc, dns_vars, current_url, target, ip,
                   calls, call, prev>>

\* Lines 142-168: recv returns b"" or times out, the socket is closed, the
\* response is split and a redirect is followed.  r is what was read.
FetchRecvEnd ==
    /\ pc = "recv"
    /\ \E r \in Responses :
         /\ recvd = 0 => r = NoSepResponse
         /\ IF ~r.sep
            THEN /\ Return(Str(<< >>))
                 /\ UNCHANGED <<url, redirect_count, response, chunk_data, chunk_result,
                                net, hop, tls_log>>
            ELSE IF r.redirect /\ r.location # << >>
            THEN /\ url' = RedirectTarget(target, r.location)
                 /\ redirect_count' = redirect_count + 1
                 /\ pc' = "guard"
                 /\ net' = [net EXCEPT !.rel_redirect =
                               IF redirect_count = 0 THEN StartsWith(r.location, <<"/">>) ELSE @]
                 /\ hop' = NoHop
                 /\ tls_log' = << >>
                 /\ UNCHANGED <<last, display, response, chunk_data, chunk_result>>
            ELSE /\ pc' = "decode"
                 /\ response' = r
                 /\ chunk_data' = IF r.chunked THEN r.body ELSE << >>
                 /\ chunk_result' = << >>
                 /\ UNCHANGED <<last, display, url, redirect_count, net, hop, tls_log>>
    /\ wait' = 0
    /\ recvd' = 0
    /\ UNCHANGED <<chunk_in, chunk_pc, dns_vars, cache, current_url, target, ip,
                   calls, call, prev>>

\* Line 172: one iteration of the loop of decode_chunked.
FetchDechunk ==
    /\ pc = "decode"
    /\ response.chunked
    /\ LET r == ChunkBody(chunk_data, chunk_result) IN
       /\ ~r.done
       /\ chunk_data' = r.data
       /\ chunk_result' = r.result
    /\ UNCHANGED <<chunk_in, chunk_pc, dns_vars, browser_vars, fetch_vars, obs_vars>>

TransferDecoded == IF response.chunked THEN chunk_result ELSE response.body

\* Lines 174-188.
FetchFinish ==
    /\ pc = "decode"
    /\ response.chunked => ChunkBody(chunk_data, chunk_result).done
    /\ LET result == TypedResult(response, TransferDecoded) IN
       /\ cache' = IF StoresResult(response) THEN CachePut(cache, url, result) ELSE cache
       /\ Return(result)
    /\ UNCHANGED <<chunk_vars, dns_vars, current_url, url, redirect_count, target, ip,
                   wait, recvd, response, calls, call, prev, net, hop, tls_log>>

FetchStep ==
    \/ FetchGuard
    \/ FetchCacheCheck
    \/ FetchParseUrl
    \/ FetchResolve
    \/ FetchConnect
    \/ FetchTls
    \/ FetchTlsConnect
    \/ FetchTlsWrap
    \/ FetchSend
    \/ FetchRecvWait
    \/ FetchRecvData
    \/ FetchRecvEnd
    \/ FetchDechunk
    \/ FetchFinish

Init == ChunkIdle /\ DnsIdle /\ BrowserInit

Next ==
    \/ \E u \in TypedUrls : Navigate(u)
    \/ OnReload
    \/ \E src \in ImageSrcs : RenderImage(src)
    \/ FetchStep

Spec == Init /\ [][Next]_vars

\* The response-read loop of lines 139-146.
RecvStep == FetchRecvWait \/ FetchRecvData \/ FetchRecvEnd

\* The interpreter keeps executing the read loop and time keeps passing
\* while recv is blocked; the peer is not constrained.
FairSpec == Spec /\ WF_vars(RecvStep)

----------------------------------------------------------------------------
(* decode_chunked and the parser of resolve on their own inputs.           *)

ChunkInit == ChunkStart /\ DnsIdle /\ BrowserInit

ChunkNext ==
    \/ ChunkIter
    \/ ChunkReturn

ChunkSpec == ChunkInit /\ [][ChunkNext]_vars

DnsInit == ChunkIdle /\ DnsStart /\ BrowserInit

DnsNext ==
    \/ DnsHeader
    \/ DnsQuestion
    \/ DnsAnswer
    \/ DnsReturn

DnsSpec == DnsInit /\ [][DnsNext]_vars

----------------------------------------------------------------------------
(* Properties.                                                             *)

\* C1: a frame entered with _redirect_count > 10 raises "Too many redirects"
\* at the guard, before the cache lookup, URL parsing, DNS query or TCP
\* connection of that hop; the depth never passes 11 and at most 11 hops of
\* one outermost call perform network I/O.
RedirectGuardBoundsHops ==
    /\ redirect_count <= MAX_REDIRECTS + 1
    /\ net.io_hops <= MAX_REDIRECTS + 1
    /\ redirect_count > MAX_REDIRECTS =>
          /\ pc \in {"guard", "idle"}
          /\ hop = NoHop
          /\ net.hits = 0
          /\ pc = "idle" => ~last.ok /\ last.err = "TooManyRedirects"

RedirectChainCutOff ==
    /\ pc = "idle"
    /\ last.err = "TooManyRedirects"
    /\ redirect_count = MAX_REDIRECTS + 1
    /\ net.io_hops = MAX_REDIRECTS + 1

\* C2: when fetch(u) returned a body and fetch(u) is called again without a
\* reload in between, the second call does no network I/O and returns the
\* same body.
SecondFetchServedFromCache ==
    (pc = "idle" /\ last.ok /\ prev.ok /\ last.url = prev.url /\ last.kind # "reload")
        => (net.io_hops = 0 /\ last.val = prev.val)

\* C3: after fetch(u) followed a redirect to a path and returned the body of
\* the final resource (which the cache holds under the final URL), the cache
\* holds that body under the key u.
RedirectedBodyCachedUnderOriginalUrl ==
    (pc = "idle" /\ last.ok /\ net.rel_redirect /\ net.hits = 0
       /\ url \in DOMAIN cache /\ cache[url] = last.val)
        => (last.url \in DOMAIN cache /\ cache[last.url] = last.val)

\* A cache entry is new or changed in this step.
Stored(k) == k \in DOMAIN cache' /\ (k \notin DOMAIN cache \/ cache'[k] # cache[k])

\* The step ends a frame that went through transfer decoding, content
\* decoding and typing, stores its result under its own url and returns it.
StoredByThisFrame(k) ==
    /\ pc = "decode"
    /\ response.chunked => ChunkBody(chunk_data, chunk_result).done
    /\ k = url
    /\ cache'[k] = TypedResult(response, TransferDecoded)
    /\ pc' = "idle"
    /\ last'.ok
    /\ last'.val = cache'[k]

\* C4 as stated: every cache entry was stored by a frame whose response had
\* no redirect status and that ran through transfer decoding, content decoding
\* and typing; its key is the url of that frame and its value what it returned.
CacheEntriesFromNonRedirectStatus ==
    [][\A k \in DOMAIN cache' : Stored(k) => (StoredByThisFrame(k) /\ ~response.redirect)]_vars

\* C4 as amended: the same, for a frame that did not follow a redirect (no
\* redirect status, or a redirect status without a usable Location header).
CacheEntriesFromUnfollowedResponses ==
    [][\A k \in DOMAIN cache' :
          Stored(k) => (StoredByThisFrame(k) /\ ~(response.redirect /\ response.location # << >>))]_vars

RedirectWithoutLocationCached ==
    /\ pc = "idle"
    /\ last.ok
    /\ net.hits = 0
    /\ response.sep
    /\ response.redirect
    /\ url \in DOMAIN cache
    /\ cache[url] = last.val

\* C5: the encoding of chunks p1..pN followed by the zero-size chunk decodes
\* to p1 ++ ... ++ pN; when the size line that follows k chunks has no CRLF
\* or is rejected by int(.., 16), decoding stops there and returns the
\* payloads of those k chunks.  While the loop runs, result is the payloads
\* consumed so far and data the encoding of the rest.
Consumed(k) ==
    /\ chunk_result = Concat(SubSeq(chunk_in.chunks, 1, k))
    /\ chunk_data = EncodeChunks(SubSeq(chunk_in.chunks, k + 1, Len(chunk_in.chunks)))
                       \o chunk_in.tail

ChunkedDecodesPayloadsInOrder ==
    chunk_in.kind \in {"wellformed", "nocrlf", "badsize"} =>
        /\ \E k \in 0..Len(chunk_in.chunks) : Consumed(k)
        /\ chunk_data = chunk_in.tail => ChunkBody(chunk_data, chunk_result).done
        /\ chunk_pc = "done" => chunk_result = Concat(chunk_in.chunks)

TwoChunksDecoded ==
    /\ chunk_pc = "done"
    /\ chunk_in.kind = "wellformed"
    /\ Len(chunk_in.chunks) = 2
    /\ Len(chunk_in.chunks[1]) = 17
    /\ Len(chunk_in.chunks[2]) = 10
    /\ chunk_result = chunk_in.chunks[1] \o chunk_in.chunks[2]

\* Offset of the i-th answer record in a synthetic response.
AnswerOffset(i) == 12 + Len(QuestionBytes) + Len(RecordsBytes(SubSeq(dns_in.answers, 1, i - 1)))

\* C6: in a well-formed response every answer-loop iteration leaves the name
\* at its true end (2 bytes for a pointer, the byte after the terminator for
\* labels, also when the labels end in a pointer) and reads the TYPE, CLASS,
\* TTL, RDLENGTH and RDATA of that record; every record is read.
AnswerNamesSkippedExactly ==
    dns_in.kind = "wellformed" =>
        /\ \A i \in 1..Len(dns_log) :
              LET rec == dns_in.answers[i] IN
              /\ dns_log[i].start = AnswerOffset(i)
              /\ dns_log[i].named
              /\ dns_log[i].after_name = AnswerOffset(i) + Len(rec.name)
              /\ dns_log[i].read
              /\ dns_log[i].fields = [rtype |-> rec.rtype, rclass |-> rec.rclass, ttl |-> rec.ttl,
                                      rdlength |-> Len(rec.rdata), rdata |-> rec.rdata]
        /\ dns_pc = "done" => Len(dns_log) = Len(dns_in.answers)

\* The host part before ":" of the current frame's URL, when its port suffix
\* is not an integer.
HasMalformedPort ==
    /\ target.err = "none"
    /\ target.scheme # << >>
    /\ Contains(target.host_header, <<":">>)
    /\ ~IntBase10(SplitTail(target.host_header, <<":">>)).ok

HostBeforeColon == SplitHead(target.host_header, <<":">>)

\* C7: with a port suffix that is not an integer the frame uses the default
\* port of the scheme and resolves and connects to the host before the ":":
\* the only name given to resolve is that host, and for localhost no query is
\* sent and the connection goes to 127.0.0.1.
MalformedPortUsesHostBeforeColon ==
    (pc # "idle" /\ HasMalformedPort) =>
        /\ target.port = IF target.scheme = Http THEN 80 ELSE 443
        /\ hop.dns_host \in {<< >>, HostBeforeColon}
        /\ HostBeforeColon = Localhost => hop.dns_host = << >>
        /\ (HostBeforeColon = Localhost /\ hop.tcp_to.port # 0) => hop.tcp_to.ip = Loopback

\* C8: the content displayed by a reload comes from the network, never from
\* a cache entry (all entries left in the cache were stored before the reload).
ReloadDisplaysFreshContent ==
    (pc = "idle" /\ last.kind = "reload" /\ last.ok) => net.hits = 0

\* C9: the response-read loop is always left: no server keeps it running.
ReadLoopEnds == (pc = "recv") ~> (pc # "recv")

IsHandshake(e, verify) == e.ev = "handshake" /\ e.verify = verify

\* C10: the first handshake is verified against the system store; a handshake
\* with verification disabled happens only after that one failed certificate
\* verification, a fresh connection was opened and the bundled store turned
\* out to be unavailable, the warning is printed before it, and it is the last
\* strategy; the bundled store is used whenever it is available; when the
\* first handshake verifies nothing else happens.
TlsFallbackOrdered ==
    /\ tls_log # << >> => IsHandshake(tls_log[1], "system")
    /\ \A i \in 2..Len(tls_log) :
          /\ tls_log[1].out = "certfail"
          /\ tls_log[2] = [ev |-> "connect", verify |-> "-", out |-> tls_log[2].out]
          /\ ~IsHandshake(tls_log[i], "system")
    /\ \A i \in 1..Len(tls_log) :
          IsHandshake(tls_log[i], "disabled") =>
              /\ i = 5 /\ Len(tls_log) = 5
              /\ tls_log[2].out = "ok"
              /\ tls_log[3] = [ev |-> "import certifi", verify |-> "-", out |-> "ImportError"]
              /\ tls_log[4].ev = "warning"
    /\ \A i \in 1..Len(tls_log) :
          IsHandshake(tls_log[i], "bundled") =>
              /\ i = 4 /\ Len(tls_log) = 4
              /\ tls_log[2].out = "ok"
              /\ tls_log[3] = [ev |-> "import certifi", verify |-> "-", out |-> "ok"]
    /\ \A i \in 1..Len(tls_log) :
          tls_log[i].ev = "warning" => i < Len(tls_log) /\ IsHandshake(tls_log[i + 1], "disabled")

UnverifiedHandshakeDone ==
    /\ pc = "send"
    /\ Len(tls_log) = 5
    /\ IsHandshake(tls_log[5], "disabled")
    /\ tls_log[5].out = "ok"

-----------------------------------------------------------------------------
\* C11: for a host other than localhost, whatever the DNS exchange produced
\* (timeout, socket error, no A record, truncated or malformed datagram), a
\* resolution without address makes fetch fail with the DNS-failed error for
\* that host and no TCP connection is opened; for localhost no query is sent
\* and the address is 127.0.0.1.
AfterResolve == {"connect", "tls", "tls_connect", "tls_wrap", "send", "recv", "decode"}

ResolvedNothing ==
    /\ pc = "idle"
    /\ hop.dns_host # << >>
    /\ hop.tcp_to = NoHop.tcp_to

ResolutionFailureIsDnsFailed ==
    /\ ResolvedNothing =>
          /\ ~last.ok
          /\ last.err = "DNSFailed"
          /\ hop.dns_host = target.host
    /\ (pc \in AfterResolve /\ target.host = Localhost) =>
          /\ hop.dns_host = << >>
          /\ ip = Loopback

\* C13: decode_chunked terminates on every input: an iteration of the loop
\* either stops decoding or leaves strictly less data than it found, also for
\* a signed size line (a negative size) and for a size larger than what remains.
EveryIterationShortensData ==
    chunk_pc = "loop" =>
        LET r == ChunkBody(chunk_data, chunk_result) IN
        r.done \/ Len(r.data) < Len(chunk_data)

\* The answer records that lie wholly inside the datagram, in the order received.
WholeAnswers ==
    { i \in 1..Len(dns_in.answers) : AnswerOffset(i + 1) <= Len(dns_response) }

IsAddressRecord(rec) == rec.rtype = 1 /\ Len(rec.rdata) = 4

FirstAddress ==
    LET as == { i \in WholeAnswers : IsAddressRecord(dns_in.answers[i]) } IN
    IF as = {} THEN None
    ELSE Address(dns_in.answers[CHOOSE i \in as : \A j \in as : i <= j].rdata)

\* C14: resolve returns the address of the first answer record, in the order
\* received, with TYPE=1 and RDLENGTH=4, as the four octets of that record's
\* RDATA; other records are skipped by RDLENGTH bytes so that later ones are
\* still read; without such a record the result is no address.
ResolveReturnsFirstAddressRecord ==
    dns_pc = "done" => dns_ret = FirstAddress

\* C15: a fetch call that fails (too many redirects, invalid URL, unsupported
\* scheme, DNS failure, connection refused or timed out), at any redirect
\* depth, leaves _cache exactly as the outermost call found it; the invalid-URL
\* and unsupported-scheme failures come before any DNS query or connection
\* of the failing frame.
CallFailed == pc = "idle" /\ last.kind # "none" /\ ~last.ok

FailedFetchLeavesCache ==
    CallFailed =>
        /\ cache = call.before
        /\ last.err \in {"InvalidURL", "UnsupportedScheme"} => hop = NoHop

FailedAfterRedirectWithEntries ==
    /\ CallFailed
    /\ redirect_count >= 1
    /\ last.err \in {"DNSFailed", "ConnectionRefused", "ConnectionTimeout"}
    /\ DOMAIN cache # {}

====
